---------------------------- MODULE Spec2Model ----------------------------
(***************************************************************************)
(* Model of go_utils/filtering.py: the three DataFrame filters             *)
(* filter_invalid_coords, filter_duplicates and                            *)
(* filter_poor_geolocational_data, with the pandas/numpy operations they   *)
(* call (boolean indexing, DataFrame.mask / where, dropna, isin,           *)
(* groupby().filter, np.vectorize).                                        *)
(*                                                                         *)
(* A dataset is a sequence of rows; a row carries its index label and one  *)
(* cell per column.  Numbers are kept in tenths (36.5 is 365), so that     *)
(* int() truncation and the open / closed bounds are computed, not assumed.*)
(* Cells are values: the dtype of a column (the int64 to float64 upcast of *)
(* DataFrame.mask / where) is not represented.                             *)
(***************************************************************************)
EXTENDS Integers, Sequences, FiniteSets

VARIABLES
    orig,      \* the dataset the chain of calls started from
    cur,       \* the dataset the caller passes to the next call of the chain
    pre,       \* content of the argument `df` when the last call started
    df,        \* the caller's object passed as `df`, as it is after the last call
    returned,  \* the value the last call returned (None after inplace=True or a raise)
    call       \* the last call: which filter, its parameters, the error it raised

vars == <<orig, cur, pre, df, returned, call>>

(***************************************************************************)
(* Bounds of the model                                                     *)
(***************************************************************************)
MaxRows == 3

(***************************************************************************)
(* Cells, rows, datasets                                                   *)
(***************************************************************************)
Columns == {"Latitude", "Longitude", "MGRSLatitude", "MGRSLongitude", "attribute1"}

\* a number, in tenths
Num(n) == [t |-> "num", v |-> n, s |-> ""]
\* a string
Str(x) == [t |-> "str", v |-> 0, s |-> x]
\* the missing value (NaN)
NaN == [t |-> "nan", v |-> 0, s |-> ""]

\* whole degrees in tenths
Deg(n) == n * 10

MkCells(lat, lon, mlat, mlon, attr) ==
    [col \in Columns |->
        CASE col = "Latitude" -> lat
          [] col = "Longitude" -> lon
          [] col = "MGRSLatitude" -> mlat
          [] col = "MGRSLongitude" -> mlon
          [] OTHER -> attr]

\* The rows the datasets are built from: the values of the repository's tests
\* (filtering_test.py), the boundary values, and missing values.
RowPool ==
    << MkCells(Num(365), Num(952), Num(365), Num(952), Str("foo")),       \* GPS = grid
       MkCells(Num(365), Num(952), Num(365), Num(302), NaN),              \* grid matches in latitude only
       MkCells(Num(192), Num(308), Num(193), Num(302), Str("foo")),       \* good row
       MkCells(Num(Deg(30)), Num(135), Num(302), Num(Deg(14)), Str("bar")),    \* integer latitude
       MkCells(Num(392), Num(Deg(180)), Num(393), Num(155), Str("bar")),  \* lon = 180, an integer longitude
       MkCells(Num(Deg(90)), Num(952), Num(193), Num(302), Str("foo")),   \* lat = 90
       MkCells(Num(Deg(-9999)), Num(308), Num(Deg(-90)), Num(302), Str("foo")), \* lat = -9999
       MkCells(NaN, NaN, NaN, NaN, NaN),                                  \* fully empty row
       MkCells(NaN, Num(308), Num(193), Num(302), Str("bar")) >>          \* missing GPS latitude

\* pd.DataFrame.from_dict: default RangeIndex 0..n-1
FromCells(cs) == [i \in 1..Len(cs) |-> [idx |-> i - 1, c |-> cs[i]]]

SeqsUpTo(S, n) == UNION { [1..k -> S] : k \in 0..n }

\* The input datasets: up to MaxRows rows of the pool, a row may repeat.  No
\* filter reads the position of a row, so one order per choice of rows is
\* enumerated (the order of the pool).
DatasetsOf(pool) ==
    { FromCells([i \in 1..Len(p) |-> pool[p[i]]]) :
        p \in { q \in SeqsUpTo(1..Len(pool), MaxRows) :
                    \A i \in 1..Len(q), j \in 1..Len(q) : i < j => q[i] <= q[j] } }

Datasets == DatasetsOf(RowPool)

\* Rows of datasets that are not well formed: a string or a missing value in
\* a coordinate column.
MalformedRowPool ==
    << MkCells(Num(192), Num(308), Num(193), Num(302), Str("foo")),       \* good row
       MkCells(Str("abc"), Num(308), Num(193), Num(302), Str("foo")),     \* string latitude
       MkCells(Num(192), Str("abc"), Num(193), Num(302), Str("bar")),     \* string longitude
       MkCells(Num(Deg(30)), NaN, Num(302), Num(Deg(14)), Str("bar")),    \* integer latitude, missing longitude
       MkCells(NaN, Num(308), Num(193), Num(302), Str("bar")),            \* missing latitude
       MkCells(Num(Deg(-9999)), Num(308), Num(193), Num(302), Str("foo")) >> \* lat = -9999

MalformedDatasets == DatasetsOf(MalformedRowPool)

None == [some |-> FALSE, val |-> <<>>]
Some(d) == [some |-> TRUE, val |-> d]


(***************************************************************************)
(* pandas / numpy operations used by the filters                           *)
(***************************************************************************)

\* Series comparison with a number: False on a missing value
Gt(c, n) == c.t = "num" /\ c.v > n
Ge(c, n) == c.t = "num" /\ c.v >= n
Lt(c, n) == c.t = "num" /\ c.v < n
Le(c, n) == c.t = "num" /\ c.v <= n

\* elementwise ==: a missing value equals nothing, not even itself
Eq(a, b) == a.t # "nan" /\ b.t # "nan" /\ a = b

\* pd.isna of a cell
IsNa(c) == c.t = "nan"

\* df[col] on a name that is no column raises KeyError
HasColumn(col) == col \in Columns

\* Series compared with a number (<, <=, >, >=) raises TypeError when the
\* column holds a string ('>=' not supported between 'str' and 'int')
ComparisonRaises(d, col) == \E i \in 1..Len(d) : d[i].c[col].t = "str"

\* int(x) raises ValueError on NaN and on a string that is no integer
\* literal (no string of the model is one)
IntRaises(c) == c.t # "num"

\* the rows of d at the positions where m is True, in order: d[m] for a
\* boolean Series / array m
RECURSIVE BoolIndexFrom(_, _, _)
BoolIndexFrom(d, m, i) ==
    IF i > Len(d) THEN <<>>
    ELSE (IF m[i] THEN <<d[i]>> ELSE <<>>) \o BoolIndexFrom(d, m, i + 1)

\* boolean indexing that starts one position late
BoolIndex_skip_first(d, m) == BoolIndexFrom(d, m, 2)

BoolIndex(d, m) == BoolIndexFrom(d, m, 1)

\* ~ of a boolean Series / array
Not(m) == [i \in DOMAIN m |-> ~m[i]]

\* ~ of a boolean DataFrame
NotCells(cm) == [i \in DOMAIN cm |-> [col \in Columns |-> ~cm[i][col]]]

\* DataFrame.mask(cond) with a boolean Series cond: the Series is broadcast
\* over the columns, every cell of a row where cond is True becomes NaN
MaskRows(d, m) ==
    [i \in 1..Len(d) |->
        IF m[i] THEN [d[i] EXCEPT !.c = [col \in Columns |-> NaN]] ELSE d[i]]

\* DataFrame.mask(cond) with a boolean DataFrame cond: NaN where cond is True
Mask(d, cm) ==
    [i \in 1..Len(d) |->
        [d[i] EXCEPT !.c = [col \in Columns |->
                               IF cm[i][col] THEN NaN ELSE d[i].c[col]]]]

\* d[cond] with a boolean DataFrame cond is DataFrame.where(cond): NaN where
\* cond is False
Where(d, cm) ==
    [i \in 1..Len(d) |->
        [d[i] EXCEPT !.c = [col \in Columns |->
                               IF cm[i][col] THEN d[i].c[col] ELSE NaN]]]


\* dropna that drops nothing
DropNa_none(d, how) == d

\* DataFrame.dropna(how=...): "any" drops a row holding a missing value,
\* "all" drops a row whose cells are all missing
DropNa(d, how) ==
    BoolIndex(d, [i \in 1..Len(d) |->
                    IF how = "any"
                    THEN \A col \in Columns : ~IsNa(d[i].c[col])
                    ELSE \E col \in Columns : ~IsNa(d[i].c[col])])

\* DataFrame.isin(values) with a DataFrame: self.eq(values.reindex_like(self)),
\* a cell is True when values has the row's index label and an equal cell
IsIn(d, values) ==
    [i \in 1..Len(d) |->
        [col \in Columns |->
            \E j \in 1..Len(values) :
                values[j].idx = d[i].idx /\ Eq(d[i].c[col], values[j].c[col])]]

\* the group key of a row
KeyOf(r, columns) == [k \in 1..Len(columns) |-> r.c[columns[k]]]

\* groupby(by=columns) with the default dropna=True: a row whose key holds a
\* missing value is in no group
InGroups(r, columns) == \A k \in 1..Len(columns) : ~IsNa(r.c[columns[k]])

\* len(x) of the group of row i
GroupLen(d, columns, i) ==
    Cardinality({ j \in 1..Len(d) :
                    InGroups(d[j], columns)
                    /\ KeyOf(d[j], columns) = KeyOf(d[i], columns) })

\* lambda x: len(x) >= group_size
suspect_group(n, group_size) == n >= group_size

\* df.groupby(by=columns).filter(func): the rows of the groups func accepts,
\* in their original order
GroupByFilter(d, columns, group_size) ==
    BoolIndex(d, [i \in 1..Len(d) |->
                    InGroups(d[i], columns)
                    /\ suspect_group(GroupLen(d, columns, i), group_size)])

\* int(x) of a float: truncation toward zero
IntTrunc(v) == IF v >= 0 THEN (v \div 10) * 10 ELSE -(((-v) \div 10) * 10)


(***************************************************************************)
(* filter_invalid_coords                                                   *)
(***************************************************************************)


\* coords_mask with the closed bounds in both branches
coords_mask_closed(d, latitude_col, longitude_col, inclusive) ==
    [i \in 1..Len(d) |->
        /\ Ge(d[i].c[latitude_col], Deg(-90))
        /\ Le(d[i].c[latitude_col], Deg(90))
        /\ Le(d[i].c[longitude_col], Deg(180))
        /\ Ge(d[i].c[longitude_col], Deg(-180))]

\* the mask of lines 48-61
coords_mask(d, latitude_col, longitude_col, inclusive) ==
    [i \in 1..Len(d) |->
        IF inclusive
        THEN /\ Ge(d[i].c[latitude_col], Deg(-90))
             /\ Le(d[i].c[latitude_col], Deg(90))
             /\ Le(d[i].c[longitude_col], Deg(180))
             /\ Ge(d[i].c[longitude_col], Deg(-180))
        ELSE /\ Gt(d[i].c[latitude_col], Deg(-90))
             /\ Lt(d[i].c[latitude_col], Deg(90))
             /\ Lt(d[i].c[longitude_col], Deg(180))
             /\ Gt(d[i].c[longitude_col], Deg(-180))]

\* the exception raised while the mask is computed: the operands of & are
\* evaluated left to right, the latitude column is looked up and compared
\* before the longitude column is looked up
coords_error(d, latitude_col, longitude_col) ==
    IF ~HasColumn(latitude_col) THEN "KeyError"
    ELSE IF ComparisonRaises(d, latitude_col) THEN "TypeError"
    ELSE IF ~HasColumn(longitude_col) THEN "KeyError"
    ELSE IF ComparisonRaises(d, longitude_col) THEN "TypeError"
    ELSE "none"

\* inplace=False: return df[mask]
invalid_coords_copy(d, mask) == BoolIndex(d, mask)

\* inplace=True: df.mask(~mask, inplace=True); df.dropna(inplace=True)
\* (dropna's default is how="any")
invalid_coords_inplace(d, mask) == DropNa(MaskRows(d, Not(mask)), "any")


\* filter_invalid_coords masking and dropping on the caller's object in both modes
filter_invalid_coords_nocopy(d, latitude_col, longitude_col, inclusive, inplace) ==
    LET mask == coords_mask(d, latitude_col, longitude_col, inclusive)
    IN  [err |-> "none", df |-> invalid_coords_inplace(d, mask),
         ret |-> IF inplace THEN None ELSE Some(invalid_coords_copy(d, mask))]

\* The outcome of a call: err the exception raised ("none" when it returns),
\* df the caller's object after the call, ret the returned value.
filter_invalid_coords(d, latitude_col, longitude_col, inclusive, inplace) ==
    LET mask == coords_mask(d, latitude_col, longitude_col, inclusive)
        e == coords_error(d, latitude_col, longitude_col)
    IN  IF e # "none"
        THEN [err |-> e, df |-> d, ret |-> None]
        ELSE IF ~inplace
        THEN [err |-> "none", df |-> d, ret |-> Some(invalid_coords_copy(d, mask))]
        ELSE [err |-> "none", df |-> invalid_coords_inplace(d, mask), ret |-> None]

(***************************************************************************)
(* filter_duplicates                                                       *)
(***************************************************************************)

\* lines 95-96: suspect_df and suspect_mask
suspect_mask(d, columns, group_size) ==
    IsIn(d, GroupByFilter(d, columns, group_size))


\* duplicates_copy with dropna's default how="any"
duplicates_copy_any(d, sm) == DropNa(Where(d, NotCells(sm)), "any")

\* inplace=False: return df[~suspect_mask].dropna(how="all")
duplicates_copy(d, sm) == DropNa(Where(d, NotCells(sm)), "all")


\* duplicates_inplace with dropna's default how="any"
duplicates_inplace_any(d, sm) == DropNa(Mask(d, sm), "any")

\* inplace=True: df.mask(suspect_mask, inplace=True); df.dropna(how="all", inplace=True)
duplicates_inplace(d, sm) == DropNa(Mask(d, sm), "all")

filter_duplicates(d, columns, group_size, inplace) ==
    LET sm == suspect_mask(d, columns, group_size)
    IN  \* groupby(by=columns) raises KeyError on a name that is no column
        IF \E k \in 1..Len(columns) : ~HasColumn(columns[k])
        THEN [err |-> "KeyError", df |-> d, ret |-> None]
        ELSE IF ~inplace
        THEN [err |-> "none", df |-> d, ret |-> Some(duplicates_copy(d, sm))]
        ELSE [err |-> "none", df |-> duplicates_inplace(d, sm), ret |-> None]

(***************************************************************************)
(* filter_poor_geolocational_data                                          *)
(***************************************************************************)


\* geolocational_filter without the test of the longitude
geolocational_filter_lat_only(gps_lat, gps_lon, recorded_lat, recorded_lon) ==
    IF Eq(recorded_lat, gps_lat) /\ Eq(recorded_lon, gps_lon) THEN "bad"
    ELSE IF IntRaises(gps_lat) THEN "raise"
    ELSE IF gps_lat.v = IntTrunc(gps_lat.v) THEN "bad"
    ELSE "good"

\* geolocational_filter with `or` between the two grid comparisons
geolocational_filter_either(gps_lat, gps_lon, recorded_lat, recorded_lon) ==
    IF Eq(recorded_lat, gps_lat) \/ Eq(recorded_lon, gps_lon) THEN "bad"
    ELSE IF IntRaises(gps_lat) THEN "raise"
    ELSE IF gps_lat.v = IntTrunc(gps_lat.v) THEN "bad"
    ELSE IF IntRaises(gps_lon) THEN "raise"
    ELSE IF gps_lon.v = IntTrunc(gps_lon.v) THEN "bad"
    ELSE "good"

\* geolocational_filter (lines 133-138), evaluated left to right with the
\* short circuits of `and` / `or`: "raise" when int() is reached on NaN or on
\* a string (ValueError), else "bad" or "good".
geolocational_filter(gps_lat, gps_lon, recorded_lat, recorded_lon) ==
    IF Eq(recorded_lat, gps_lat) /\ Eq(recorded_lon, gps_lon) THEN "bad"
    ELSE IF IntRaises(gps_lat) THEN "raise"
    ELSE IF gps_lat.v = IntTrunc(gps_lat.v) THEN "bad"
    ELSE IF IntRaises(gps_lon) THEN "raise"
    ELSE IF gps_lon.v = IntTrunc(gps_lon.v) THEN "bad"
    ELSE "good"

\* np.vectorize(geolocational_filter)(...): the function applied to each row
vectorized_filter(d, latitude_col, longitude_col, mgrs_latitude_col, mgrs_longitude_col) ==
    [i \in 1..Len(d) |->
        geolocational_filter(d[i].c[latitude_col], d[i].c[longitude_col],
                             d[i].c[mgrs_latitude_col], d[i].c[mgrs_longitude_col])]

\* inplace=False: return filtered_df
poor_geo_copy(d, filtered_df) == filtered_df


\* poor_geo_inplace with dropna's default how="any"
poor_geo_inplace_any(d, filtered_df) ==
    DropNa(Mask(d, NotCells(IsIn(d, filtered_df))), "any")

\* inplace=True: df.mask(~df.isin(filtered_df), inplace=True); df.dropna(how="all", inplace=True)
poor_geo_inplace(d, filtered_df) ==
    DropNa(Mask(d, NotCells(IsIn(d, filtered_df))), "all")

filter_poor_geolocational_data(d, latitude_col, longitude_col, mgrs_latitude_col, mgrs_longitude_col, inplace) ==
    LET out == vectorized_filter(d, latitude_col, longitude_col,
                                 mgrs_latitude_col, mgrs_longitude_col)
        filtered_df == BoolIndex(d, [i \in 1..Len(d) |-> out[i] = "good"])
    IN  \* the four df[col].to_numpy() arguments are evaluated first
        IF \E col \in {latitude_col, longitude_col, mgrs_latitude_col, mgrs_longitude_col} :
                ~HasColumn(col)
        THEN [err |-> "KeyError", df |-> d, ret |-> None]
        \* np.vectorize refuses size 0 inputs when otypes is not set, and an
        \* exception of the row function ends the call: both are ValueError
        ELSE IF Len(d) = 0 \/ \E i \in 1..Len(d) : out[i] = "raise"
        THEN [err |-> "ValueError", df |-> d, ret |-> None]
        ELSE IF ~inplace
        THEN [err |-> "none", df |-> d, ret |-> Some(poor_geo_copy(d, filtered_df))]
        ELSE [err |-> "none", df |-> poor_geo_inplace(d, filtered_df), ret |-> None]

(***************************************************************************)
(* The calls a caller makes, chained: each call is made on the current     *)
(* dataset, and the chain goes on with the returned dataset (inplace=False)*)
(* or with the mutated one (inplace=True).                                 *)
(***************************************************************************)
CoordColumnPairs == { <<"Latitude", "Longitude">> }

GroupColumns == { <<"Latitude", "Longitude">>, <<"attribute1">> }

GeoColumns == { <<"Latitude", "Longitude", "MGRSLatitude", "MGRSLongitude">> }

\* column names of a caller who may pass a name the dataset does not have
AnyCoordColumnPairs ==
    CoordColumnPairs \cup { <<"latitude", "Longitude">>, <<"Latitude", "longitude">> }

AnyGroupColumns == GroupColumns \cup { <<"attribute1", "attribute2">> }

AnyGeoColumns ==
    GeoColumns \cup { <<"latitude", "Longitude", "MGRSLatitude", "MGRSLongitude">>,
                      <<"Latitude", "Longitude", "MGRSLatitude", "MGRSLon">> }

\* the thresholds tried: a group has at most MaxRows rows
GroupSizes == 0..MaxRows

NoCall == [op |-> "none", latitude_col |-> "", longitude_col |-> "",
           mgrs_latitude_col |-> "", mgrs_longitude_col |-> "",
           inclusive |-> FALSE, columns |-> <<>>, group_size |-> 0,
           inplace |-> FALSE, err |-> "none"]

Init ==
    /\ orig \in Datasets
    /\ cur = orig
    /\ pre = orig
    /\ df = orig
    /\ returned = None
    /\ call = NoCall

\* what every call does to the caller's state
Outcome(r) ==
    /\ pre' = cur
    /\ df' = r.df
    /\ returned' = r.ret
    /\ cur' = IF r.ret.some THEN r.ret.val ELSE r.df
    /\ UNCHANGED orig

CallInvalidCoords(pairs) ==
    \E cols \in pairs, inclusive \in BOOLEAN, inplace \in BOOLEAN :
        LET r == filter_invalid_coords(cur, cols[1], cols[2], inclusive, inplace)
        IN  /\ Outcome(r)
            /\ call' = [NoCall EXCEPT !.op = "filter_invalid_coords",
                                      !.latitude_col = cols[1],
                                      !.longitude_col = cols[2],
                                      !.inclusive = inclusive,
                                      !.inplace = inplace,
                                      !.err = r.err]

CallDuplicates(lists) ==
    \E columns \in lists, group_size \in GroupSizes, inplace \in BOOLEAN :
        LET r == filter_duplicates(cur, columns, group_size, inplace)
        IN  /\ Outcome(r)
            /\ call' = [NoCall EXCEPT !.op = "filter_duplicates",
                                      !.columns = columns,
                                      !.group_size = group_size,
                                      !.inplace = inplace,
                                      !.err = r.err]

CallPoorGeolocationalData(quads) ==
    \E cols \in quads, inplace \in BOOLEAN :
        LET r == filter_poor_geolocational_data(cur, cols[1], cols[2], cols[3], cols[4], inplace)
        IN  /\ Outcome(r)
            /\ call' = [NoCall EXCEPT !.op = "filter_poor_geolocational_data",
                                      !.latitude_col = cols[1],
                                      !.longitude_col = cols[2],
                                      !.mgrs_latitude_col = cols[3],
                                      !.mgrs_longitude_col = cols[4],
                                      !.inplace = inplace,
                                      !.err = r.err]

\* the calls on the columns of the dataset
FilterInvalidCoords == CallInvalidCoords(CoordColumnPairs)

FilterDuplicates == CallDuplicates(GroupColumns)

FilterPoorGeolocationalData == CallPoorGeolocationalData(GeoColumns)

Next ==
    \/ FilterInvalidCoords
    \/ FilterDuplicates
    \/ FilterPoorGeolocationalData

Spec == Init /\ [][Next]_vars

(***************************************************************************)
(* The same calls on datasets that are not well formed and with column     *)
(* names the dataset may not have.                                         *)
(***************************************************************************)
InitMalformed ==
    /\ orig \in MalformedDatasets
    /\ cur = orig
    /\ pre = orig
    /\ df = orig
    /\ returned = None
    /\ call = NoCall

FilterInvalidCoordsAnyColumns == CallInvalidCoords(AnyCoordColumnPairs)

FilterDuplicatesAnyColumns == CallDuplicates(AnyGroupColumns)

FilterPoorGeolocationalDataAnyColumns == CallPoorGeolocationalData(AnyGeoColumns)

NextMalformed ==
    \/ FilterInvalidCoordsAnyColumns
    \/ FilterDuplicatesAnyColumns
    \/ FilterPoorGeolocationalDataAnyColumns

SpecMalformed == InitMalformed /\ [][NextMalformed]_vars


(***************************************************************************)
(* Vocabulary of the properties                                            *)
(***************************************************************************)

\* the dataset the last call delivered: the returned one, or the caller's
\* dataset after an in-place call
Result == IF returned.some THEN returned.val ELSE df

RowsOf(d) == { d[i] : i \in 1..Len(d) }

Labels(d) == { d[i].idx : i \in 1..Len(d) }

IsNumber(c) == c.t = "num"

NumericColumn(d, col) == \A i \in 1..Len(d) : IsNumber(d[i].c[col])

\* the row lies within the open (inclusive = FALSE) or closed bounds
WithinBounds(r, latitude_col, longitude_col, inclusive) ==
    LET lat == r.c[latitude_col].v
        lon == r.c[longitude_col].v
    IN  IF inclusive
        THEN -900 <= lat /\ lat <= 900 /\ -1800 <= lon /\ lon <= 1800
        ELSE -900 < lat /\ lat < 900 /\ -1800 < lon /\ lon < 1800

\* the rows with the same values as r in all grouping columns (a missing
\* value being the same value as a missing value)
Cluster(d, r, columns) ==
    { j \in 1..Len(d) :
        \A k \in 1..Len(columns) : d[j].c[columns[k]] = r.c[columns[k]] }

\* a number with a fractional part
NonInteger(c) == IsNumber(c) /\ c.v % 10 # 0

SameNumber(a, b) == IsNumber(a) /\ IsNumber(b) /\ a.v = b.v

HasValue(r) == \E col \in Columns : r.c[col] # NaN

(***************************************************************************)
(* C1: on numeric latitude and longitude columns, filter_invalid_coords    *)
(* with inplace=False returns exactly the rows within the open bounds      *)
(* (inclusive=False) or the closed bounds (inclusive=True); a row with     *)
(* lat = 90 or lon = 180 is returned only under inclusive=True, a row      *)
(* with lat = -9999 never.                                                 *)
(***************************************************************************)
C1_BoundsExact ==
    ( /\ call.op = "filter_invalid_coords"
      /\ ~call.inplace
      /\ NumericColumn(pre, call.latitude_col)
      /\ NumericColumn(pre, call.longitude_col) )
    => /\ call.err = "none"
       /\ returned.some
       /\ returned.val =
            SelectSeq(pre, LAMBDA r : WithinBounds(r, call.latitude_col,
                                                  call.longitude_col, call.inclusive))
       /\ \A r \in RowsOf(returned.val) :
            /\ (r.c[call.latitude_col].v = 900 \/ r.c[call.longitude_col].v = 1800)
                    => call.inclusive
            /\ r.c[call.latitude_col].v # -99990

C1_Witness ==
    /\ call.op = "filter_invalid_coords"
    /\ ~call.inplace
    /\ call.inclusive
    /\ NumericColumn(pre, "Latitude")
    /\ NumericColumn(pre, "Longitude")
    /\ \E r \in RowsOf(pre) : r.c["Latitude"].v = -99990
    /\ \E r \in RowsOf(returned.val) : r.c["Latitude"].v = 900
    /\ \E r \in RowsOf(returned.val) : r.c["Longitude"].v = 1800

(***************************************************************************)
(* C2: the result of filter_duplicates holds no row of a cluster (the rows *)
(* with identical values in all grouping columns) of group_size rows or    *)
(* more.                                                                   *)
(***************************************************************************)
C2_ClusterRemoved ==
    (call.op = "filter_duplicates" /\ call.err = "none")
    => \A i \in 1..Len(pre) :
            Cardinality(Cluster(pre, pre[i], call.columns)) >= call.group_size
            => pre[i].idx \notin Labels(Result)

(***************************************************************************)
(* C3 as stated: every row of a cluster of fewer than group_size rows is   *)
(* in the result of filter_duplicates, unchanged.                          *)
(***************************************************************************)
C3_SmallClusterKept ==
    (call.op = "filter_duplicates" /\ call.err = "none")
    => \A i \in 1..Len(pre) :
            Cardinality(Cluster(pre, pre[i], call.columns)) < call.group_size
            => pre[i] \in RowsOf(Result)

(***************************************************************************)
(* C3, amended: every row that holds at least one non-missing value and    *)
(* belongs to a cluster of fewer than group_size rows is in the result of  *)
(* filter_duplicates, unchanged (a fully empty row is dropped).            *)
(***************************************************************************)
C3_SmallClusterKeptUnlessEmpty ==
    (call.op = "filter_duplicates" /\ call.err = "none")
    => \A i \in 1..Len(pre) :
            ( /\ HasValue(pre[i])
              /\ Cardinality(Cluster(pre, pre[i], call.columns)) < call.group_size )
            => pre[i] \in RowsOf(Result)

C3_Witness ==
    /\ call.op = "filter_duplicates"
    /\ call.group_size = 2
    /\ Len(pre) = 3
    /\ Len(Result) = 1
    /\ HasValue(Result[1])
    /\ Cardinality(Cluster(pre, Result[1], call.columns)) = 1

(***************************************************************************)
(* C4: every row that survives filter_poor_geolocational_data has a GPS    *)
(* position that differs from the grid position in latitude or longitude,  *)
(* a non-integer GPS latitude and a non-integer GPS longitude.             *)
(***************************************************************************)
C4_SurvivorsAreGood ==
    (call.op = "filter_poor_geolocational_data" /\ call.err = "none")
    => \A r \in RowsOf(Result) :
            /\ \/ ~SameNumber(r.c["Latitude"], r.c["MGRSLatitude"])
               \/ ~SameNumber(r.c["Longitude"], r.c["MGRSLongitude"])
            /\ NonInteger(r.c["Latitude"])
            /\ NonInteger(r.c["Longitude"])

C4_Witness ==
    /\ call.op = "filter_poor_geolocational_data"
    /\ call.err = "none"
    /\ Len(pre) = 3
    /\ Len(Result) = 1
    /\ \E r \in RowsOf(pre) : ~NonInteger(r.c["Longitude"]) /\ NonInteger(r.c["Latitude"])
    /\ \E r \in RowsOf(pre) : /\ SameNumber(r.c["Latitude"], r.c["MGRSLatitude"])
                              /\ SameNumber(r.c["Longitude"], r.c["MGRSLongitude"])

(***************************************************************************)
(* C5: filter_poor_geolocational_data keeps every row whose GPS latitude   *)
(* and longitude are both non-integers and whose GPS pair is not identical *)
(* to its grid pair; a row that matches the grid in one coordinate only is *)
(* kept.                                                                   *)
(***************************************************************************)
C5_GoodRowsKept ==
    ( /\ call.op = "filter_poor_geolocational_data"
      /\ (call.err = "none" \/ call.inplace) )
    => \A i \in 1..Len(pre) :
            ( /\ NonInteger(pre[i].c["Latitude"])
              /\ NonInteger(pre[i].c["Longitude"])
              /\ ~( /\ SameNumber(pre[i].c["Latitude"], pre[i].c["MGRSLatitude"])
                    /\ SameNumber(pre[i].c["Longitude"], pre[i].c["MGRSLongitude"]) ) )
            => pre[i] \in RowsOf(Result)

C5_Witness ==
    /\ call.op = "filter_poor_geolocational_data"
    /\ call.err = "none"
    /\ Len(Result) < Len(pre)
    /\ \E r \in RowsOf(Result) :
            /\ SameNumber(r.c["Latitude"], r.c["MGRSLatitude"])
            /\ ~SameNumber(r.c["Longitude"], r.c["MGRSLongitude"])


(***************************************************************************)
(* C6: mode equivalence of filter_invalid_coords: on numeric coordinate    *)
(* columns (other columns may hold missing values) the caller's dataset    *)
(* after the call with inplace=True equals the dataset the call with       *)
(* inplace=False returns on the same input: same rows, order and labels.   *)
(***************************************************************************)
C6_CoordsModeEquivalence ==
    ( /\ call.op = "filter_invalid_coords"
      /\ call.inplace
      /\ NumericColumn(pre, call.latitude_col)
      /\ NumericColumn(pre, call.longitude_col) )
    => df = filter_invalid_coords(pre, call.latitude_col, call.longitude_col,
                                  call.inclusive, FALSE).ret.val

(***************************************************************************)
(* C7: mode equivalence of filter_duplicates: the dataset returned with    *)
(* inplace=False equals the caller's dataset after the call with           *)
(* inplace=True on the same input: same rows, order and labels.            *)
(***************************************************************************)
C7_DuplicatesModeEquivalence ==
    call.op = "filter_duplicates"
    => LET copy == filter_duplicates(pre, call.columns, call.group_size, FALSE)
           inpl == filter_duplicates(pre, call.columns, call.group_size, TRUE)
       IN  /\ copy.err = inpl.err
           /\ copy.ret.val = inpl.df
           /\ Result = (IF call.inplace THEN copy.ret.val ELSE inpl.df)

C7_Witness ==
    /\ call.op = "filter_duplicates"
    /\ call.inplace
    /\ Len(pre) = 3
    /\ Len(df) = 1
    /\ df[1].idx = 1
    /\ \E col \in Columns : IsNa(df[1].c[col])

(***************************************************************************)
(* C8: mode equivalence of filter_poor_geolocational_data on numeric       *)
(* coordinate columns: both modes raise, or the dataset returned with      *)
(* inplace=False equals the caller's dataset after the call with           *)
(* inplace=True: same rows, order and labels.                              *)
(***************************************************************************)
C8_PoorGeoModeEquivalence ==
    ( /\ call.op = "filter_poor_geolocational_data"
      /\ \A col \in {"Latitude", "Longitude", "MGRSLatitude", "MGRSLongitude"} :
            NumericColumn(pre, col) )
    => LET copy == filter_poor_geolocational_data(pre, "Latitude", "Longitude",
                        "MGRSLatitude", "MGRSLongitude", FALSE)
           inpl == filter_poor_geolocational_data(pre, "Latitude", "Longitude",
                        "MGRSLatitude", "MGRSLongitude", TRUE)
       IN  /\ copy.err = inpl.err
           /\ call.err = copy.err
           /\ copy.err = "none"
                => /\ copy.ret.val = inpl.df
                   /\ Result = (IF call.inplace THEN copy.ret.val ELSE inpl.df)

C8_Witness ==
    /\ call.op = "filter_poor_geolocational_data"
    /\ call.inplace
    /\ call.err = "none"
    /\ \A col \in {"Latitude", "Longitude", "MGRSLatitude", "MGRSLongitude"} :
            NumericColumn(pre, col)
    /\ Len(pre) = 3
    /\ Len(df) = 1
    /\ df[1].idx = 1
    /\ IsNa(df[1].c["attribute1"])

(***************************************************************************)
(* C9: after any chain of calls the current dataset, and the caller's      *)
(* object of the last call, is an order-preserving sub-collection of the   *)
(* original one: every row has its original index label and cell values,   *)
(* and the rows are in their original relative order.                      *)
(***************************************************************************)
SubDataset(d, o) ==
    /\ \A k \in 1..Len(d) : \E i \in 1..Len(o) : o[i] = d[k]
    /\ \A k \in 1..Len(d), l \in 1..Len(d) : k < l => d[k].idx < d[l].idx

C9_OnlyRemovesRows ==
    /\ SubDataset(cur, orig)
    /\ SubDataset(df, orig)
    /\ SubDataset(cur, pre)

C9_Witness ==
    /\ Len(orig) = 3
    /\ Len(pre) = 2
    /\ Len(cur) = 1
    /\ cur[1].idx = 2
    /\ call.op = "filter_duplicates"
    /\ call.inplace

(***************************************************************************)
(* C10: with inplace=False each filter leaves the caller's dataset as it   *)
(* was before the call and delivers the filtered rows through the          *)
(* returned dataset only.                                                  *)
(***************************************************************************)
C10_CopyModeFrame ==
    (call.op # "none" /\ ~call.inplace)
    => /\ df = pre
       /\ call.err = "none" => returned.some

C10_Witness ==
    /\ call.op = "filter_invalid_coords"
    /\ ~call.inplace
    /\ Len(pre) = 3
    /\ df = pre
    /\ returned.some
    /\ Len(returned.val) = 1


(***************************************************************************)
(* Vocabulary of the properties on names and errors                        *)
(***************************************************************************)

\* the column names the last call was given
NamedColumns ==
    CASE call.op = "filter_invalid_coords" -> {call.latitude_col, call.longitude_col}
      [] call.op = "filter_duplicates" -> { call.columns[k] : k \in 1..Len(call.columns) }
      [] call.op = "filter_poor_geolocational_data" ->
            {call.latitude_col, call.longitude_col,
             call.mgrs_latitude_col, call.mgrs_longitude_col}
      [] OTHER -> {}

\* the outcome of a call r made with the mode inplace: the error, or the
\* dataset it delivered
OutcomeOf(r, inplace) ==
    IF r.err # "none" THEN [err |-> r.err, data |-> <<>>]
    ELSE [err |-> "none", data |-> IF inplace THEN r.df ELSE r.ret.val]

(***************************************************************************)
(* C11: a call given a column name that the dataset does not have ends     *)
(* with a key-not-found error and no result, and leaves the caller's       *)
(* dataset unchanged, also with inplace=True.                              *)
(***************************************************************************)
C11_MissingColumnKeyError ==
    (call.op # "none" /\ \E col \in NamedColumns : col \notin Columns)
    => /\ call.err = "KeyError"
       /\ ~returned.some
       /\ df = pre

(***************************************************************************)
(* C12: filter_invalid_coords is idempotent: applied with the same         *)
(* columns, inclusive and mode to the result of a first application, it    *)
(* yields that result again.                                               *)
(***************************************************************************)
C12_CoordsIdempotent ==
    (call.op = "filter_invalid_coords" /\ call.err = "none")
    => LET again == filter_invalid_coords(Result, call.latitude_col, call.longitude_col,
                                          call.inclusive, call.inplace)
       IN  OutcomeOf(again, call.inplace) = [err |-> "none", data |-> Result]

C12_Witness ==
    /\ call.op = "filter_invalid_coords"
    /\ call.err = "none"
    /\ call.inplace
    /\ Len(pre) = 3
    /\ Len(Result) = 2

(***************************************************************************)
(* C13: in filter_duplicates the rows with a missing value in a grouping   *)
(* column are grouped by their key like the others: when group_size rows   *)
(* or more share such a key, all of them are removed.                      *)
(***************************************************************************)
C13_NullKeyClusterRemoved ==
    (call.op = "filter_duplicates" /\ call.err = "none")
    => \A i \in 1..Len(pre) :
            ( /\ \E k \in 1..Len(call.columns) : IsNa(pre[i].c[call.columns[k]])
              /\ Cardinality(Cluster(pre, pre[i], call.columns)) >= call.group_size )
            => pre[i].idx \notin Labels(Result)

(***************************************************************************)
(* C14: filter_duplicates called with group_size <= 1 removes every row.   *)
(***************************************************************************)
C14_ThresholdOneRemovesAll ==
    (call.op = "filter_duplicates" /\ call.err = "none" /\ call.group_size <= 1)
    => Len(Result) = 0

(***************************************************************************)
(* C15: filter_invalid_coords raises no error when the latitude or         *)
(* longitude column holds a non-numeric or missing value: such a row is    *)
(* excluded and the other rows are filtered as usual.                      *)
(***************************************************************************)
C15_NonNumericExcluded ==
    ( /\ call.op = "filter_invalid_coords"
      /\ call.latitude_col \in Columns
      /\ call.longitude_col \in Columns )
    => /\ call.err = "none"
       /\ \A r \in RowsOf(Result) :
            IsNumber(r.c[call.latitude_col]) /\ IsNumber(r.c[call.longitude_col])
       /\ ~call.inplace =>
            \A i \in 1..Len(pre) :
                ( /\ IsNumber(pre[i].c[call.latitude_col])
                  /\ IsNumber(pre[i].c[call.longitude_col])
                  /\ WithinBounds(pre[i], call.latitude_col, call.longitude_col,
                                  call.inclusive) )
                => pre[i] \in RowsOf(Result)

(***************************************************************************)
(* C16: filter_poor_geolocational_data raises an error and returns no      *)
(* dataset whenever some row holds a string or a missing value in the GPS  *)
(* latitude or GPS longitude column.                                       *)
(***************************************************************************)
C16_NonNumericGpsRaises ==
    ( /\ call.op = "filter_poor_geolocational_data"
      /\ NamedColumns \subseteq Columns
      /\ \E i \in 1..Len(pre) :
            \/ ~IsNumber(pre[i].c[call.latitude_col])
            \/ ~IsNumber(pre[i].c[call.longitude_col]) )
    => /\ call.err # "none"
       /\ ~returned.some

(***************************************************************************)
(* C17: on a dataset whose named columns exist and hold only numbers, a    *)
(* dataset with no rows included, each filter completes without raising    *)
(* and yields a dataset.                                                   *)
(***************************************************************************)
C17_NoErrorOnNumericInput ==
    ( /\ call.op # "none"
      /\ NamedColumns \subseteq Columns
      /\ \A col \in NamedColumns : NumericColumn(pre, col) )
    => /\ call.err = "none"
       /\ call.inplace \/ returned.some

(***************************************************************************)
(* C18: on numeric coordinate columns filter_invalid_coords followed by    *)
(* filter_poor_geolocational_data has the same outcome (the same dataset,  *)
(* or an error in both orders) as filter_poor_geolocational_data followed  *)
(* by filter_invalid_coords.                                               *)
(***************************************************************************)
C18_RowFiltersCommute ==
    ( /\ call.op = "filter_invalid_coords"
      /\ call.err = "none"
      /\ \A col \in {"Latitude", "Longitude", "MGRSLatitude", "MGRSLongitude"} :
            NumericColumn(pre, col) )
    => LET coords_geo ==
                OutcomeOf(filter_poor_geolocational_data(Result, "Latitude", "Longitude",
                              "MGRSLatitude", "MGRSLongitude", call.inplace), call.inplace)
           geo == OutcomeOf(filter_poor_geolocational_data(pre, "Latitude", "Longitude",
                              "MGRSLatitude", "MGRSLongitude", call.inplace), call.inplace)
           geo_coords ==
                IF geo.err # "none" THEN geo
                ELSE OutcomeOf(filter_invalid_coords(geo.data, call.latitude_col,
                                   call.longitude_col, call.inclusive, call.inplace),
                               call.inplace)
       IN  /\ (coords_geo.err = "none") = (geo_coords.err = "none")
           /\ coords_geo.err = "none" => coords_geo.data = geo_coords.data

=============================================================================
